---- MODULE Spec2Model ----
(***************************************************************************)
(* Hyper-V security groups driver (hyperv/neutron/security_groups_driver). *)
(* The driver keeps two caches (rule templates and members per security    *)
(* group), a map of tracked ports and a per-port rule list, and drives an  *)
(* external ACL provider (os-win networkutils) through                     *)
(* create_security_rules / remove_security_rules /                         *)
(* clear_port_sg_acls_cache.                                               *)
(***************************************************************************)
EXTENDS Integers, Sequences, FiniteSets, TLC

(***************************************************************************)
(* Python values.  A dict is a function whose DOMAIN is its key set; a     *)
(* rule dict is a record in which a key the dict does not hold carries the *)
(* marker Absent.  A list is a sequence.                                   *)
(***************************************************************************)
Absent == "<absent>"

INGRESS_DIRECTION == "ingress"
EGRESS_DIRECTION == "egress"

DIRECTION_IP_PREFIX ==
    [ingress |-> "source_ip_prefix", egress |-> "dest_ip_prefix"]

\* ACL_PROP_MAP: the os-win constants are kept symbolic.
ACL_DIRECTION == [ingress |-> "ACL_DIR_IN", egress |-> "ACL_DIR_OUT"]
ACL_ETHERTYPE == [IPv4 |-> "ACL_TYPE_IPV4", IPv6 |-> "ACL_TYPE_IPV6"]
\* keys of ACL_PROP_MAP['protocol'], in the order the dict literal lists them
ProtocolKeys == <<"tcp", "udp", "icmp", "ipv6-icmp">>
ACL_PROTOCOL(k) ==
    CASE k = "tcp" -> "TCP_PROTOCOL"
      [] k = "udp" -> "UDP_PROTOCOL"
      [] k = "icmp" -> "ICMP_PROTOCOL"
      [] k = "ipv6-icmp" -> "ICMPV6_PROTOCOL"
ACL_ACTION == [allow |-> "ACL_ACTION_ALLOW", deny |-> "ACL_ACTION_DENY"]
ACL_DEFAULT == "ANY"
ACL_ADDRESS_DEFAULT == [IPv4 |-> "0.0.0.0/0", IPv6 |-> "::/0"]

Range(s) == {s[i] : i \in DOMAIN s}

\* list(ACL_PROP_MAP['protocol'].values())
ProtocolValues == [i \in DOMAIN ProtocolKeys |-> ACL_PROTOCOL(ProtocolKeys[i])]

(***************************************************************************)
(* Addresses.  Hosts are the member addresses the model draws from;        *)
(* netaddr renders a host as a single-host network.                        *)
(***************************************************************************)
IPv4Hosts == {"10.0.0.1", "10.0.0.2"}
IPv6Hosts == {"::1"}
Hosts == IPv4Hosts \cup IPv6Hosts

\* str(netaddr.IPNetwork(ip).cidr)
Cidr(ip) == IF ip \in IPv6Hosts THEN ip \o "/128" ELSE ip \o "/32"

\* remote_address.split('/128', 1)[0]
SplitHost128(addr) ==
    IF \E h \in Hosts : addr = h \o "/128"
    THEN CHOOSE h \in Hosts : addr = h \o "/128"
    ELSE addr

(***************************************************************************)
(* Rule dicts (templates, provider rules, selected rules).                 *)
(***************************************************************************)
RuleDict(direction, ethertype, protocol, pmin, pmax, remote_group, src, dst) ==
    [direction |-> direction, ethertype |-> ethertype, protocol |-> protocol,
     port_range_min |-> pmin, port_range_max |-> pmax,
     remote_group_id |-> remote_group,
     source_ip_prefix |-> src, dest_ip_prefix |-> dst,
     security_group_id |-> Absent]

IsAcl(x) == "Direction" \in DOMAIN x

(***************************************************************************)
(* SecurityGroupRuleR2                                                     *)
(***************************************************************************)
IdleSessionTimeout == 0
Weight == 65500

\* _FIELDS with the remote address left out
FIELDSNoRemoteAddress ==
    <<"Direction", "Action", "LocalPort", "Protocol", "Stateful",
      "IdleSessionTimeout">>

FIELDS == <<"Direction", "Action", "LocalPort", "Protocol",
            "RemoteIPAddress", "Stateful", "IdleSessionTimeout">>

\* SecurityGroupRuleR2.__init__ keeping the local port of an ICMP rule
SecurityGroupRuleR2KeepsPort(direction, local_port, protocol, remote_addr, action) ==
    LET is_not_icmp == protocol \notin {ACL_PROTOCOL("icmp"),
                                        ACL_PROTOCOL("ipv6-icmp")}
    IN [Direction |-> direction,
        Action |-> action,
        LocalPort |-> local_port,
        Protocol |-> protocol,
        RemoteIPAddress |-> remote_addr,
        Stateful |-> (is_not_icmp /\ action # ACL_ACTION.deny),
        IdleSessionTimeout |-> IdleSessionTimeout,
        Weight |-> Weight]

\* SecurityGroupRuleR2.__init__
SecurityGroupRuleR2(direction, local_port, protocol, remote_addr, action) ==
    LET is_not_icmp == protocol \notin {ACL_PROTOCOL("icmp"),
                                        ACL_PROTOCOL("ipv6-icmp")}
    IN [Direction |-> direction,
        Action |-> action,
        LocalPort |-> IF is_not_icmp THEN local_port ELSE "",
        Protocol |-> protocol,
        RemoteIPAddress |-> remote_addr,
        Stateful |-> (is_not_icmp /\ action # ACL_ACTION.deny),
        IdleSessionTimeout |-> IdleSessionTimeout,
        Weight |-> Weight]

\* SecurityGroupRuleBase.__eq__, self an ACL rule: obj must carry every
\* field of _FIELDS with the same value.
SgRuleEq(self, obj) ==
    \A i \in DOMAIN FIELDS :
        FIELDS[i] \in DOMAIN obj /\ obj[FIELDS[i]] = self[FIELDS[i]]

\* SecurityGroupRuleR2.__hash__: the hash cached by __init__, of the tuple
\* (direction, action, self.LocalPort, protocol, remote_addr); equal tuples
\* hash alike
RuleHash(self) ==
    <<self.Direction, self.Action, self.LocalPort, self.Protocol,
      self.RemoteIPAddress>>

\* Python ==: a dict never equals an ACL rule object (dict.__eq__ gives
\* NotImplemented and the reflected __eq__ finds no attribute Direction).
PyEq(a, b) ==
    IF IsAcl(a) THEN SgRuleEq(a, b)
    ELSE IF IsAcl(b) THEN SgRuleEq(b, a)
    ELSE a = b

\* x in lst
PyIn(x, lst) == \E i \in DOMAIN lst : PyEq(lst[i], x)

\* list(lst) in the place of list(set(lst))
ListOfSetKeepsAll(lst) == lst

\* list(set(lst)): one entry per class of equal rules.  The order is the
\* set's hash order, which no consumer reads; first occurrences are kept.
RECURSIVE ListOfSet(_)
ListOfSet(lst) ==
    IF lst = <<>> THEN <<>>
    ELSE LET init == SubSeq(lst, 1, Len(lst) - 1)
             last == lst[Len(lst)]
         IN IF PyIn(last, init) THEN ListOfSet(init)
            ELSE Append(ListOfSet(init), last)

(***************************************************************************)
(* SecurityGroupRuleGeneratorR2                                            *)
(***************************************************************************)
\* _get_rule_port_range testing for either bound instead of both
GetRulePortRangeEither(rule) ==
    IF rule.port_range_min # Absent \/ rule.port_range_max # Absent
    THEN rule.port_range_min \o "-" \o rule.port_range_max
    ELSE ACL_DEFAULT

\* _get_rule_port_range
GetRulePortRange(rule) ==
    IF rule.port_range_min # Absent /\ rule.port_range_max # Absent
    THEN rule.port_range_min \o "-" \o rule.port_range_max
    ELSE ACL_DEFAULT

\* _get_rule_remote_address
GetRuleRemoteAddress(rule) ==
    LET ip_prefix == IF rule.direction = "ingress" THEN "source_ip_prefix"
                     ELSE "dest_ip_prefix"
    IN IF rule[ip_prefix] # Absent THEN rule[ip_prefix]
       ELSE ACL_ADDRESS_DEFAULT[rule.ethertype]

\* _get_rule_prop_or_default(rule, 'protocol')
GetRulePropOrDefault(rule, prop) ==
    IF rule[prop] # Absent THEN rule[prop] ELSE ACL_DEFAULT

\* _get_rule_protocol
GetRuleProtocol(rule) ==
    LET protocol == GetRulePropOrDefault(rule, "protocol")
    IN IF protocol \in Range(ProtocolKeys) THEN ACL_PROTOCOL(protocol)
       ELSE protocol

\* create_security_group_rule without the split of the ANY protocol
CreateSecurityGroupRuleUnsplit(rule) ==
    <<SecurityGroupRuleR2(ACL_DIRECTION[rule.direction],
                          GetRulePortRange(rule),
                          GetRuleProtocol(rule),
                          SplitHost128(GetRuleRemoteAddress(rule)),
                          ACL_ACTION.allow)>>

\* create_security_group_rule
CreateSecurityGroupRule(rule) ==
    LET local_port == GetRulePortRange(rule)
        direction == ACL_DIRECTION[rule.direction]
        remote_address == SplitHost128(GetRuleRemoteAddress(rule))
        protocol == GetRuleProtocol(rule)
        protocols == IF protocol = ACL_DEFAULT THEN ProtocolValues
                     ELSE <<protocol>>
    IN [i \in DOMAIN protocols |->
            SecurityGroupRuleR2(direction, local_port, protocols[i],
                                remote_address, ACL_ACTION.allow)]

\* create_security_group_rules
RECURSIVE CreateSecurityGroupRules(_)
CreateSecurityGroupRules(rules) ==
    IF rules = <<>> THEN <<>>
    ELSE CreateSecurityGroupRule(Head(rules))
            \o CreateSecurityGroupRules(Tail(rules))

EthertypeKeys == <<"IPv4", "IPv6">>
DirectionKeys == <<"ingress", "egress">>

\* create_default_sg_rules with its outer loop over one direction only
CreateDefaultSgRulesIngressOnly ==
    LET np == Len(ProtocolKeys)
        ne == Len(EthertypeKeys)
    IN [i \in 1..(np * ne) |->
          SecurityGroupRuleR2(ACL_DIRECTION.ingress,
                              ACL_DEFAULT,
                              ProtocolValues[((i - 1) \div ne) + 1],
                              ACL_ADDRESS_DEFAULT[EthertypeKeys[((i - 1) % ne) + 1]],
                              ACL_ACTION.deny)]

\* create_default_sg_rules: directions x protocols x (ethertype, address)
CreateDefaultSgRules ==
    LET nd == Len(DirectionKeys)
        np == Len(ProtocolKeys)
        ne == Len(EthertypeKeys)
    IN [i \in 1..(nd * np * ne) |->
          LET d == ((i - 1) \div (np * ne)) + 1
              p == (((i - 1) \div ne) % np) + 1
              e == ((i - 1) % ne) + 1
          IN SecurityGroupRuleR2(ACL_DIRECTION[DirectionKeys[d]],
                                 ACL_DEFAULT,
                                 ProtocolValues[p],
                                 ACL_ADDRESS_DEFAULT[EthertypeKeys[e]],
                                 ACL_ACTION.deny)]

\* compute_new_rules_add: (add_rules, [])
ComputeNewRulesAdd(old_rules, new_rules) ==
    SelectSeq(new_rules, LAMBDA r : ~PyIn(r, old_rules))

(***************************************************************************)
(* Inputs: the port descriptions, template lists and member dicts the      *)
(* agent hands to the driver.                                              *)
(***************************************************************************)
TplTcpIn ==
    RuleDict("ingress", "IPv4", "tcp", "80", "80", Absent, Absent, Absent)
TplRemoteEg ==
    RuleDict("egress", "IPv4", "udp", Absent, Absent, "B", Absent, Absent)
ProviderRule ==
    RuleDict("egress", "IPv4", "udp", "67", "68", Absent, Absent, Absent)

Groups == {"A", "B"}
\* the groups a template names as remote: the member cache is read for these
RemoteGroups == {TplRemoteEg.remote_group_id}
RuleLists == {<<>>, <<TplTcpIn>>, <<TplTcpIn, TplRemoteEg>>}
MemberDicts == {[IPv4 |-> <<"10.0.0.1", "10.0.0.2">>, IPv6 |-> <<>>],
                [IPv6 |-> <<"::1">>]}

PortDict(id, fixed_ips, groups, provider_rules) ==
    [id |-> id, device |-> id, fixed_ips |-> fixed_ips,
     security_groups |-> groups, security_group_rules |-> provider_rules]

PortDescs ==
    {PortDict("p1", <<"10.0.0.1">>, <<"A">>, <<ProviderRule>>)}
    \cup {PortDict("p1", <<"10.0.0.1">>, <<"B">>, <<>>)}
    \cup {PortDict("p2", <<"10.0.0.2">>, <<"A">>, <<>>)}
PortIds == {p.id : p \in PortDescs}
NoPort == PortDict("", <<>>, <<>>, <<>>)

(***************************************************************************)
(* State                                                                   *)
(***************************************************************************)
VARIABLES
    sg_rule_templates,  \* self._sg_rule_templates: sg_id -> list of templates
    sg_members,         \* self._sg_members: sg_id -> (ethertype -> list of ips)
    security_ports,     \* self._security_ports: device -> port dict
    sec_group_rules,    \* self._sec_group_rules: port id -> list
    acls,               \* provider: port id -> rules created and not removed
    task,               \* the lifecycle call in flight (frame of its greenthread)
    prev,               \* the call the caller made just before the one in flight
    ncalls,             \* lifecycle calls started so far
    nupdates,           \* cache updates made so far
    call                \* the last call of a generator or selector function

vars == <<sg_rule_templates, sg_members, security_ports, sec_group_rules,
          acls, task, prev, ncalls, nupdates, call>>

\* The runs explored hold at most MaxCalls lifecycle calls and
\* MaxCacheUpdates cache updates.
MaxCalls == 3
MaxCacheUpdates == 2

EmptyDict == [k \in {} |-> <<>>]

\* an assignment that replaces the whole dict by the one entry
DictSetAlone(d, key, value) == [k \in {key} |-> value]

\* dict[key] = value
DictSet(d, key, value) ==
    [k \in DOMAIN d \cup {key} |-> IF k = key THEN value ELSE d[k]]

\* a pop that was left out
DictPopKeeps(d, key) == d

\* dict.pop(key, None)
DictPop(d, key) == [k \in DOMAIN d \ {key} |-> d[k]]

\* dict.get(key, [])
DictGetList(d, key) == IF key \in DOMAIN d THEN d[key] ELSE <<>>

IdleTask ==
    [pc |-> "idle", op |-> "none", port |-> NoPort, status |-> "none",
     log |-> <<>>,
     \* locals of the suspended call
     sg_rules |-> <<>>, newrules |-> <<>>, remove_rules |-> <<>>,
     \* what the call saw: the state at its start, the list before its last
     \* provider call, the caches _generate_rules read
     was_tracked |-> FALSE, old_port |-> NoPort, list_before |-> <<>>,
     generated |-> FALSE,
     snap_templates |-> EmptyDict, snap_members |-> EmptyDict]

NoPrev ==
    [op |-> "none", port |-> NoPort, status |-> "none", created |-> {},
     was_tracked |-> FALSE, stale |-> FALSE]

NoCall == [fn |-> "none", args |-> [none |-> TRUE], result |-> <<>>]

Init ==
    /\ sg_rule_templates = EmptyDict
    /\ sg_members = EmptyDict
    /\ security_ports = EmptyDict
    /\ sec_group_rules = EmptyDict
    /\ acls = [p \in PortIds |-> {}]
    /\ task = IdleTask
    /\ prev = NoPrev
    /\ ncalls = 0
    /\ nupdates = 0
    /\ call = NoCall

(***************************************************************************)
(* Rule selector.  A result is [err, rules]: err names the exception that  *)
(* left the function, "" when it returned rules.                           *)
(***************************************************************************)
Ok(rules) == [err |-> "", rules |-> rules]
Raised(e) == [err |-> e, rules |-> <<>>]

\* the inner loop body without the test `if ip in fixed_ips: continue`
SelectTemplateNoSelfExclusion(members, port, direction, sg_id, rule) ==
    IF rule.direction # direction THEN Ok(<<>>)
    ELSE IF rule.remote_group_id = Absent
    THEN Ok(<<[rule EXCEPT !.security_group_id = sg_id]>>)
    ELSE IF \/ rule.remote_group_id \notin DOMAIN members
            \/ rule.ethertype \notin DOMAIN members[rule.remote_group_id]
    THEN Raised("KeyError")
    ELSE LET ips == members[rule.remote_group_id][rule.ethertype]
         IN Ok([i \in DOMAIN ips |->
                 [rule EXCEPT ![DIRECTION_IP_PREFIX[direction]] = Cidr(ips[i]),
                              !.security_group_id = sg_id]])

\* One template of group sg_id (_select_sg_rules_for_port, body of the
\* inner loop).  self._sg_members[remote_group_id][ethertype] is a plain
\* subscript: a missing key raises KeyError.
SelectTemplate(members, port, direction, sg_id, rule) ==
    IF rule.direction # direction THEN Ok(<<>>)
    ELSE IF rule.remote_group_id = Absent
    THEN Ok(<<[rule EXCEPT !.security_group_id = sg_id]>>)
    ELSE IF \/ rule.remote_group_id \notin DOMAIN members
            \/ rule.ethertype \notin DOMAIN members[rule.remote_group_id]
    THEN Raised("KeyError")
    ELSE LET ips == members[rule.remote_group_id][rule.ethertype]
             others == SelectSeq(ips, LAMBDA ip : ip \notin Range(port.fixed_ips))
         IN Ok([i \in DOMAIN others |->
                 [rule EXCEPT ![DIRECTION_IP_PREFIX[direction]] = Cidr(others[i]),
                              !.security_group_id = sg_id]])

RECURSIVE SelectTemplates(_, _, _, _, _)
SelectTemplates(members, port, direction, sg_id, rules) ==
    IF rules = <<>> THEN Ok(<<>>)
    ELSE LET first == SelectTemplate(members, port, direction, sg_id, Head(rules))
         IN IF first.err # "" THEN first
            ELSE LET rest == SelectTemplates(members, port, direction, sg_id,
                                             Tail(rules))
                 IN IF rest.err # "" THEN rest
                    ELSE Ok(first.rules \o rest.rules)

RECURSIVE SelectGroups(_, _, _, _, _)
SelectGroups(templates, members, port, direction, sg_ids) ==
    IF sg_ids = <<>> THEN Ok(<<>>)
    ELSE LET first == SelectTemplates(members, port, direction, Head(sg_ids),
                                      DictGetList(templates, Head(sg_ids)))
         IN IF first.err # "" THEN first
            ELSE LET rest == SelectGroups(templates, members, port, direction,
                                          Tail(sg_ids))
                 IN IF rest.err # "" THEN rest
                    ELSE Ok(first.rules \o rest.rules)

\* _select_sg_rules_for_port
SelectSgRulesForPort(templates, members, port, direction) ==
    SelectGroups(templates, members, port, direction, port.security_groups)

\* _generate_rules([port])[port['id']]
GenerateRules(templates, members, port) ==
    LET ing == SelectSgRulesForPort(templates, members, port, INGRESS_DIRECTION)
        egr == SelectSgRulesForPort(templates, members, port, EGRESS_DIRECTION)
    IN IF ing.err # "" THEN ing
       ELSE IF egr.err # "" THEN egr
       ELSE Ok(ing.rules \o egr.rules)

(***************************************************************************)
(* The provider (os-win networkutils), as the driver sees it: a call       *)
(* returns or raises, and acls keeps what was created and not removed.     *)
(***************************************************************************)
\* self._utils.create_security_rules(port_id, sg_rules), returning
CreateSecurityRules(ac, port_id, sg_rules) ==
    [ac EXCEPT ![port_id] = @ \cup Range(sg_rules)]

\* self._utils.remove_security_rules(port_id, sg_rules), returning
RemoveSecurityRules(ac, port_id, sg_rules) ==
    [ac EXCEPT ![port_id] = {a \in @ : ~PyIn(a, sg_rules)}]

ProviderCall(fn, port_id, sg_rules, ok) ==
    [fn |-> fn, port_id |-> port_id, rules |-> sg_rules, ok |-> ok]

\* the frame after a provider call made with the port's list being lst
Called(t, fn, port_id, sg_rules, ok, lst) ==
    [t EXCEPT !.log = Append(@, ProviderCall(fn, port_id, sg_rules, ok)),
              !.list_before = lst]

\* the frame of a call that returned (status "ok", "not_added") or raised
Returned(t, status) == [t EXCEPT !.pc = "done", !.status = status]

\* the frame of a call suspended in greenthread.sleep() of
\* _add_sg_port_rules, about to create sg_rules
Yielded(t, pc, sg_rules) == [t EXCEPT !.pc = pc, !.sg_rules = sg_rules]

\* the rules passed to create_security_rules calls that returned
Created(log) ==
    UNION {Range(log[i].rules) :
             i \in {j \in DOMAIN log :
                      log[j].fn = "create_security_rules" /\ log[j].ok}}

\* The caller makes a lifecycle call when none is in flight; it may make it
\* the moment the previous one returned, as a retry of that call or as the
\* next call for a port it just removed, and prev then tells what the
\* previous call did.
FollowsUp(op, port) ==
    /\ task.op \in {"prepare", "update", "remove"}
    /\ \/ op = task.op /\ port = task.port
       \/ task.op = "remove" /\ port.device = task.port.device

CanStart(op, port) ==
    \/ task.pc = "idle"
    \/ task.pc = "done" /\ FollowsUp(op, port)

PrevAtStart ==
    IF task.pc = "idle" THEN NoPrev
    ELSE [op |-> task.op, port |-> task.port, status |-> task.status,
          created |-> Created(task.log),
          was_tracked |-> task.was_tracked,
          stale |-> task.generated
                    /\ (task.snap_templates # sg_rule_templates
                        \/ task.snap_members # sg_members)]

StartTask(op, port) ==
    [IdleTask EXCEPT
        !.pc = "running", !.op = op, !.port = port, !.status = "running",
        !.was_tracked = port.device \in DOMAIN security_ports,
        !.old_port = IF port.device \in DOMAIN security_ports
                     THEN security_ports[port.device] ELSE NoPort]

\* _create_port_rules, up to the call of _add_sg_port_rules: the batch
\* list(set(add)) it passes on
CreatePortRulesAdd(old_sg_rules, rules) ==
    ListOfSet(ComputeNewRulesAdd(old_sg_rules, CreateSecurityGroupRules(rules)))

\* _remove_port_rules, up to the call of _remove_sg_port_rules: the batch
\* list(set(sg_rules)) it passes on
RemovePortRulesBatch(rules) == ListOfSet(CreateSecurityGroupRules(rules))

\* _add_sg_port_rules extending the list before the provider call
AddSgPortRulesListEager(old_sg_rules, sg_rules, ok) == old_sg_rules \o sg_rules

\* _add_sg_port_rules after the provider call: the port's list
AddSgPortRulesList(old_sg_rules, sg_rules, ok) ==
    IF ok THEN old_sg_rules \o sg_rules ELSE old_sg_rules

\* old_sg_rules.remove(rule): the first equal entry goes
RECURSIVE ListRemove(_, _)
ListRemove(lst, rule) ==
    IF lst = <<>> THEN <<>>
    ELSE IF PyEq(Head(lst), rule) THEN Tail(lst)
    ELSE <<Head(lst)>> \o ListRemove(Tail(lst), rule)

\* for rule in sg_rules: old_sg_rules.remove(rule), for the entries at idx
RECURSIVE ListRemoveEach(_, _, _)
ListRemoveEach(lst, sg_rules, idx) ==
    IF idx = {} THEN lst
    ELSE LET i == CHOOSE j \in idx : TRUE
         IN ListRemoveEach(ListRemove(lst, sg_rules[i]), sg_rules, idx \ {i})

(***************************************************************************)
(* prepare_port_filter                                                     *)
(***************************************************************************)
\* lines 141-142 with the rules generated again, after the yield
PrepareFinishRegenerated(t, rl, ac) ==
    /\ security_ports' = DictSet(security_ports, t.port.device, t.port)
    /\ sec_group_rules' =
          DictSet(rl, t.port.id,
                  GenerateRules(sg_rule_templates, sg_members, t.port).rules)
    /\ acls' = ac
    /\ task' = Returned(t, "ok")

\* lines 141-142
PrepareFinish(t, rl, ac) ==
    /\ security_ports' = DictSet(security_ports, t.port.device, t.port)
    /\ sec_group_rules' = DictSet(rl, t.port.id, t.newrules)
    /\ acls' = ac
    /\ task' = Returned(t, "ok")

\* lines 138-139, to the yield of _add_sg_port_rules or to the end
PrepareSgStage(t, rl, ac) ==
    LET gen == GenerateRules(sg_rule_templates, sg_members, t.port)
        t1 == [t EXCEPT !.newrules = gen.rules, !.generated = TRUE,
                        !.snap_templates = sg_rule_templates,
                        !.snap_members = sg_members]
        add == CreatePortRulesAdd(rl[t.port.id], gen.rules)
    IN IF gen.err # ""
       THEN /\ task' = Returned(t, gen.err)
            /\ sec_group_rules' = rl
            /\ acls' = ac
            /\ UNCHANGED security_ports
       ELSE IF add = <<>>
       THEN PrepareFinish(t1, rl, ac)
       ELSE /\ task' = Yielded(t1, "add_sg", add)
            /\ sec_group_rules' = rl
            /\ acls' = ac
            /\ UNCHANGED security_ports

\* lines 135-136, to the yield of _add_sg_port_rules or on to line 138
PrepareProviderStage(t, rl, ac) ==
    LET add == CreatePortRulesAdd(rl[t.port.id], t.port.security_group_rules)
    IN IF add = <<>>
       THEN PrepareSgStage(t, rl, ac)
       ELSE /\ task' = Yielded(t, "add_provider", add)
            /\ sec_group_rules' = rl
            /\ acls' = ac
            /\ UNCHANGED security_ports

\* the call, to its first yield or to its end
prepare_port_filter(port) ==
    /\ CanStart("prepare", port)
    /\ ncalls < MaxCalls
    /\ ncalls' = ncalls + 1
    /\ prev' = PrevAtStart
    /\ UNCHANGED call
    /\ UNCHANGED <<sg_rule_templates, sg_members, nupdates>>
    /\ LET t == StartTask("prepare", port)
       IN IF port.device \notin DOMAIN security_ports
          THEN /\ sec_group_rules' = DictSet(sec_group_rules, port.id, <<>>)
               /\ task' = Yielded(t, "add_default", CreateDefaultSgRules)
               /\ UNCHANGED <<security_ports, acls>>
          ELSE PrepareSgStage(t, sec_group_rules, acls)

\* a suspended _add_sg_port_rules runs on: the provider call returns (ok)
\* or raises, and the handler continues with `rest` or unwinds
ResumeAdd(pc, ok, rest(_, _, _)) ==
    /\ task.pc = pc
    /\ UNCHANGED <<sg_rule_templates, sg_members, prev, ncalls, nupdates, call>>
    /\ LET id == task.port.id
           old_sg_rules == sec_group_rules[id]
           t == Called(task, "create_security_rules", id, task.sg_rules, ok,
                       old_sg_rules)
           rl == [sec_group_rules EXCEPT
                    ![id] = AddSgPortRulesList(old_sg_rules, task.sg_rules, ok)]
       IN IF ok
          THEN rest([t EXCEPT !.pc = "running", !.sg_rules = <<>>], rl,
                    CreateSecurityRules(acls, id, task.sg_rules))
          ELSE /\ task' = Returned(t, "ProviderError")
               /\ sec_group_rules' = rl
               /\ UNCHANGED <<security_ports, acls>>

AddDefaultRules == \E ok \in BOOLEAN : ResumeAdd("add_default", ok, PrepareProviderStage)
AddProviderRules == \E ok \in BOOLEAN : ResumeAdd("add_provider", ok, PrepareSgStage)
AddSgRules == \E ok \in BOOLEAN : ResumeAdd("add_sg", ok, PrepareFinish)

(***************************************************************************)
(* update_port_filter                                                      *)
(***************************************************************************)
\* lines 200-204
UpdateNewRules(old_port, port, added_rules, cached) ==
    SelectSeq(port.security_group_rules,
              LAMBDA r : ~PyIn(r, old_port.security_group_rules))
    \o SelectSeq(added_rules, LAMBDA r : ~PyIn(r, cached))

\* lines 206-210
UpdateRemoveRules(old_port, port, added_rules, cached) ==
    SelectSeq(cached, LAMBDA r : ~PyIn(r, added_rules))
    \o SelectSeq(old_port.security_group_rules,
                 LAMBDA r : ~PyIn(r, port.security_group_rules))

\* lines 219-220
UpdateFinish(t, rl, ac) ==
    /\ security_ports' = DictSet(security_ports, t.port.device, t.port)
    /\ sec_group_rules' = DictSet(rl, t.port.id, t.newrules)
    /\ acls' = ac
    /\ task' = Returned(t, "ok")

\* line 217, _remove_port_rules(old_port['id'], remove_rules), and on to
\* the end.  create_security_group_rule subscripts and tests `in` on each
\* rule: an ACL rule object among remove_rules raises TypeError.
\* list.remove raises ValueError at the first rule the list does not
\* hold; the rules before it in the batch's (hash) order are gone by then.
UpdateRemoveStage(t, rl, ac) ==
    LET id == t.old_port.id
        old_sg_rules == rl[id]
    IN IF \E i \in DOMAIN t.remove_rules : IsAcl(t.remove_rules[i])
       THEN /\ task' = Returned(t, "TypeError")
            /\ sec_group_rules' = rl
            /\ acls' = ac
            /\ UNCHANGED security_ports
       ELSE LET sg_rules == RemovePortRulesBatch(t.remove_rules)
                held == {i \in DOMAIN sg_rules : PyIn(sg_rules[i], old_sg_rules)}
            IN IF sg_rules = <<>>
               THEN UpdateFinish(t, rl, ac)
               ELSE \E ok \in BOOLEAN :
                      LET t1 == Called(t, "remove_security_rules", id, sg_rules,
                                       ok, old_sg_rules)
                      IN IF ~ok
                         THEN /\ task' = Returned(t1, "ProviderError")
                              /\ sec_group_rules' = rl
                              /\ acls' = ac
                              /\ UNCHANGED security_ports
                         ELSE IF held = DOMAIN sg_rules
                         THEN UpdateFinish(
                                 t1,
                                 [rl EXCEPT ![id] =
                                     ListRemoveEach(old_sg_rules, sg_rules, held)],
                                 RemoveSecurityRules(ac, id, sg_rules))
                         ELSE \E gone \in SUBSET held :
                                /\ task' = Returned(t1, "ValueError")
                                /\ sec_group_rules' =
                                     [rl EXCEPT ![id] =
                                         ListRemoveEach(old_sg_rules, sg_rules, gone)]
                                /\ acls' = RemoveSecurityRules(ac, id, sg_rules)
                                /\ UNCHANGED security_ports

\* update_port_filter without the early return of line 192, the device
\* being registered instead
update_port_filter_registers(port) ==
    /\ CanStart("update", port)
    /\ ncalls < MaxCalls
    /\ ncalls' = ncalls + 1
    /\ prev' = PrevAtStart
    /\ UNCHANGED call
    /\ UNCHANGED <<sg_rule_templates, sg_members, nupdates, acls>>
    /\ security_ports' = DictSet(security_ports, port.device, port)
    /\ sec_group_rules' = DictSet(sec_group_rules, port.id, <<>>)
    /\ task' = Returned(StartTask("update", port), "ok")

\* the call, to the yield of _add_sg_port_rules or to its end
update_port_filter(port) ==
    /\ CanStart("update", port)
    /\ ncalls < MaxCalls
    /\ ncalls' = ncalls + 1
    /\ prev' = PrevAtStart
    /\ UNCHANGED call
    /\ UNCHANGED <<sg_rule_templates, sg_members, nupdates>>
    /\ LET t == StartTask("update", port)
       IN IF port.device \notin DOMAIN security_ports
          THEN /\ task' = Returned(t, "not_added")
               /\ UNCHANGED <<security_ports, sec_group_rules, acls>>
          ELSE
            LET old_port == security_ports[port.device]
                cached == sec_group_rules[port.id]
                gen == GenerateRules(sg_rule_templates, sg_members, port)
                t1 == [t EXCEPT
                         !.newrules = gen.rules, !.generated = TRUE,
                         !.snap_templates = sg_rule_templates,
                         !.snap_members = sg_members,
                         !.remove_rules =
                             UpdateRemoveRules(old_port, port, gen.rules, cached)]
                add == CreatePortRulesAdd(
                           cached, UpdateNewRules(old_port, port, gen.rules, cached))
            IN IF gen.err # ""
               THEN /\ task' = Returned(t, gen.err)
                    /\ UNCHANGED <<security_ports, sec_group_rules, acls>>
               ELSE IF add = <<>>
               THEN UpdateRemoveStage(t1, sec_group_rules, acls)
               ELSE /\ task' = Yielded(t1, "add_update", add)
                    /\ UNCHANGED <<security_ports, sec_group_rules, acls>>

AddUpdateRules == \E ok \in BOOLEAN : ResumeAdd("add_update", ok, UpdateRemoveStage)

(***************************************************************************)
(* remove_port_filter.  clear_port_sg_acls_cache pops the provider's own   *)
(* cache entry of the port and raises when the provider holds none.        *)
(***************************************************************************)
remove_port_filter(port) ==
    /\ CanStart("remove", port)
    /\ ncalls < MaxCalls
    /\ ncalls' = ncalls + 1
    /\ prev' = PrevAtStart
    /\ UNCHANGED call
    /\ UNCHANGED <<sg_rule_templates, sg_members, acls, nupdates>>
    /\ security_ports' = DictPop(security_ports, port.device)
    /\ sec_group_rules' = DictPop(sec_group_rules, port.id)
    /\ \E ok \in BOOLEAN :
         task' = Returned(
                    Called(StartTask("remove", port), "clear_port_sg_acls_cache",
                           port.id, <<>>, ok,
                           DictGetList(sec_group_rules, port.id)),
                    IF ok THEN "ok" ELSE "ProviderError")

(***************************************************************************)
(* Cache updates and the inert calls.  A cache update is another           *)
(* greenthread's: it runs while no lifecycle call is in flight or while    *)
(* one is suspended in greenthread.sleep().                                *)
(***************************************************************************)
update_security_group_rules(sg_id, sg_rules) ==
    /\ task.pc # "done"
    /\ nupdates < MaxCacheUpdates
    /\ nupdates' = nupdates + 1
    /\ sg_rule_templates' = DictSet(sg_rule_templates, sg_id, sg_rules)
    /\ prev' = NoPrev
    /\ UNCHANGED <<sg_members, security_ports, sec_group_rules, acls, task,
                   ncalls, call>>

update_security_group_members(sg_id, members) ==
    /\ task.pc # "done"
    /\ nupdates < MaxCacheUpdates
    /\ nupdates' = nupdates + 1
    /\ sg_members' = DictSet(sg_members, sg_id, members)
    /\ prev' = NoPrev
    /\ UNCHANGED <<sg_rule_templates, security_ports, sec_group_rules, acls,
                   task, ncalls, call>>

Inert(op) ==
    /\ task.pc = "idle"
    /\ task' = Returned(StartTask(op, NoPort), "ok")
    /\ UNCHANGED <<sg_rule_templates, sg_members, security_ports,
                   sec_group_rules, acls, prev, ncalls, nupdates, call>>

filter_defer_apply_on == Inert("filter_defer_apply_on")
filter_defer_apply_off == Inert("filter_defer_apply_off")
security_group_updated == Inert("security_group_updated")

(***************************************************************************)
(* The call's result reaches the caller.                                   *)
(***************************************************************************)
Return ==
    /\ task.pc = "done"
    /\ task' = IdleTask
    /\ prev' = NoPrev
    /\ UNCHANGED <<sg_rule_templates, sg_members, security_ports,
                   sec_group_rules, acls, ncalls, nupdates, call>>

Next ==
    \/ \E port \in PortDescs : prepare_port_filter(port)
    \/ AddDefaultRules
    \/ AddProviderRules
    \/ AddSgRules
    \/ \E port \in PortDescs : update_port_filter(port)
    \/ AddUpdateRules
    \/ \E port \in PortDescs : remove_port_filter(port)
    \/ \E sg_id \in Groups, sg_rules \in RuleLists :
          update_security_group_rules(sg_id, sg_rules)
    \/ \E sg_id \in RemoteGroups, members \in MemberDicts :
          update_security_group_members(sg_id, members)
    \/ filter_defer_apply_on
    \/ filter_defer_apply_off
    \/ security_group_updated
    \/ Return

Spec == Init /\ [][Next]_vars

(***************************************************************************)
(* The generator and the selector called on their own.  Each call is made  *)
(* on arguments drawn from the sets below; `call` keeps the arguments and  *)
(* the result of the last one.  The driver's state is not involved.        *)
(***************************************************************************)
driver_vars == <<sg_rule_templates, sg_members, security_ports,
                 sec_group_rules, acls, task, prev, ncalls, nupdates>>

\* rule dicts as the agent sends them: protocol unnamed, the wildcard, a
\* known one or one the map does not know; port range whole, half or absent;
\* the remote prefix under the key of the rule's direction
GenProtocols == {Absent, ACL_DEFAULT, "tcp", "udp", "icmp", "ipv6-icmp", "sctp"}
GenPortRanges ==
    {<<Absent, Absent>>, <<"80", "80">>, <<"80", "443">>, <<"22", Absent>>}
GenPrefixes == {Absent, "10.0.0.2/32", "10.0.0.0/24", "::1/128"}
GenRules ==
    {RuleDict(d, e, p, pr[1], pr[2], Absent,
              IF d = "ingress" THEN a ELSE Absent,
              IF d = "egress" THEN a ELSE Absent) :
        d \in {"ingress", "egress"}, e \in {"IPv4", "IPv6"},
        p \in GenProtocols, pr \in GenPortRanges, a \in GenPrefixes}

CallRecord(fn, args, result) == [fn |-> fn, args |-> args, result |-> result]

create_security_group_rule ==
    /\ call = NoCall
    /\ \E rule \in GenRules :
          call' = CallRecord("create_security_group_rule", [rule |-> rule],
                             CreateSecurityGroupRule(rule))
    /\ UNCHANGED driver_vars

create_default_sg_rules ==
    /\ call = NoCall
    /\ call' = CallRecord("create_default_sg_rules", [none |-> TRUE],
                       CreateDefaultSgRules)
    /\ UNCHANGED driver_vars

\* every rule object the generator makes from GenRules, and the baseline
GenAcls ==
    UNION {Range(CreateSecurityGroupRule(r)) : r \in GenRules}
    \cup Range(CreateDefaultSgRules)

\* rule dicts for the batches: some normalise to the same rule objects
\* (an explicit any-address prefix, another owning group, an icmp rule
\* next to a rule without protocol)
TplTcpInAny == [TplTcpIn EXCEPT !.source_ip_prefix = "0.0.0.0/0"]
TplTcpInOfB == [TplTcpIn EXCEPT !.security_group_id = "B"]
TplNoProtoIn ==
    RuleDict("ingress", "IPv4", Absent, Absent, Absent, Absent, Absent, Absent)
TplIcmpIn ==
    RuleDict("ingress", "IPv4", "icmp", "8", "0", Absent, Absent, Absent)
BatchRules ==
    {TplTcpIn, TplTcpInAny, TplTcpInOfB, ProviderRule, TplNoProtoIn, TplIcmpIn}
BatchRuleLists ==
    {<<>>} \cup {<<a>> : a \in BatchRules}
           \cup {<<a, b>> : a \in BatchRules, b \in BatchRules}

\* what self._sec_group_rules[port_id] can hold: nothing, rule objects
\* added by _add_sg_port_rules, rule dicts stored by lines 142 and 220
OldRuleLists ==
    {<<>>, CreateDefaultSgRules, CreateSecurityGroupRules(<<TplTcpIn>>),
     CreateSecurityGroupRules(<<TplNoProtoIn>>), <<TplTcpIn>>,
     <<TplTcpIn>> \o CreateSecurityGroupRules(<<ProviderRule>>)}

\* _create_port_rules, up to the batch it passes to _add_sg_port_rules
create_port_rules ==
    /\ call = NoCall
    /\ \E old_sg_rules \in OldRuleLists, rules \in BatchRuleLists :
          call' = CallRecord("_create_port_rules",
                             [old_sg_rules |-> old_sg_rules, rules |-> rules],
                             CreatePortRulesAdd(old_sg_rules, rules))
    /\ UNCHANGED driver_vars

\* _remove_port_rules, up to the batch it passes to _remove_sg_port_rules
remove_port_rules ==
    /\ call = NoCall
    /\ \E rules \in BatchRuleLists :
          call' = CallRecord("_remove_port_rules", [rules |-> rules],
                             RemovePortRulesBatch(rules))
    /\ UNCHANGED driver_vars

\* self == obj and the two hashes
sg_rule_eq ==
    /\ call = NoCall
    /\ \E self \in GenAcls, obj \in GenAcls :
          call' = CallRecord("__eq__", [self |-> self, obj |-> obj],
                             [eq |-> SgRuleEq(self, obj),
                              hash_self |-> RuleHash(self),
                              hash_obj |-> RuleHash(obj)])
    /\ UNCHANGED driver_vars

\* templates, members and ports for the selector
TplRemoteIn6 ==
    RuleDict("ingress", "IPv6", Absent, Absent, Absent, "B", Absent, Absent)
TplRemoteInA ==
    RuleDict("ingress", "IPv4", "tcp", "22", "22", "A", Absent, Absent)
SelRules == {TplTcpIn, TplRemoteEg, TplRemoteIn6, TplRemoteInA}
SelRuleLists ==
    {<<>>} \cup {<<a>> : a \in SelRules}
           \cup {<<a, b>> : a \in SelRules, b \in SelRules}
SelTemplateDicts ==
    {[g \in {"A"} |-> l] : l \in SelRuleLists}
    \cup {[g \in {"A", "B"} |-> IF g = "A" THEN l ELSE <<TplRemoteEg>>] :
             l \in SelRuleLists}
SelMembers ==
    {[IPv4 |-> <<"10.0.0.1", "10.0.0.2">>, IPv6 |-> <<>>],
     [IPv6 |-> <<"::1">>],
     [IPv4 |-> <<"10.0.0.2", "10.0.0.1">>, IPv6 |-> <<"::1">>]}
SelMemberDicts ==
    {EmptyDict}
    \cup {[g \in {"B"} |-> m] : m \in SelMembers}
    \cup {[g \in {"A", "B"} |-> m] : m \in SelMembers}
SelPorts ==
    {PortDict("p1", <<"10.0.0.1">>, <<"A">>, <<>>),
     PortDict("p1", <<"10.0.0.1", "::1">>, <<"A", "B">>, <<>>),
     PortDict("p2", <<"10.0.0.2">>, <<"B">>, <<>>),
     PortDict("p3", <<>>, <<"A">>, <<>>)}

select_sg_rules_for_port ==
    /\ call = NoCall
    /\ \E templates \in SelTemplateDicts, members \in SelMemberDicts,
          port \in SelPorts,
          direction \in {INGRESS_DIRECTION, EGRESS_DIRECTION} :
          call' = CallRecord("_select_sg_rules_for_port",
                             [templates |-> templates, members |-> members,
                              port |-> port, direction |-> direction],
                             SelectSgRulesForPort(templates, members, port,
                                                  direction))
    /\ UNCHANGED driver_vars

\* the caller takes the result
call_returns ==
    /\ call # NoCall
    /\ call' = NoCall
    /\ UNCHANGED driver_vars

GenNext ==
    \/ create_security_group_rule
    \/ create_default_sg_rules
    \/ create_port_rules
    \/ remove_port_rules
    \/ sg_rule_eq
    \/ select_sg_rules_for_port
    \/ call_returns

GenSpec == Init /\ [][GenNext]_vars

(***************************************************************************)
(* Properties                                                              *)
(***************************************************************************)
Lifecycle == {"prepare", "update"}
Finished(ops) == task.pc = "done" /\ task.op \in ops

\* the call in flight generated its rules from the caches as they are now
CachesAsGenerated ==
    task.generated => /\ task.snap_templates = sg_rule_templates
                      /\ task.snap_members = sg_members

\* Generate(Select(caches, port, ingress) + Select(caches, port, egress))
\* united with Generate(port.provider_rules), for the caches as they are
ExpectedRules(port) ==
    Range(CreateSecurityGroupRules(
              GenerateRules(sg_rule_templates, sg_members, port).rules))
    \cup Range(CreateSecurityGroupRules(port.security_group_rules))

\* C1: after a Prepare or Update that returns without error, the rules in
\* force at the provider for the port, the default-deny baseline aside, are
\* exactly the rules generated from the selected group rules and from the
\* port's provider rules.
C1_AppliedEqualsGenerated ==
    (Finished(Lifecycle) /\ task.status = "ok" /\ CachesAsGenerated)
    => acls[task.port.id] \ Range(CreateDefaultSgRules)
         = ExpectedRules(task.port)

\* the 16 deny rules: one per direction, known protocol and any-address
IsBaseline(sg_rules) ==
    /\ Len(sg_rules) = 16
    /\ Cardinality(Range(sg_rules)) = 16
    /\ \A d \in {"ACL_DIR_IN", "ACL_DIR_OUT"},
          proto \in {"TCP_PROTOCOL", "UDP_PROTOCOL", "ICMP_PROTOCOL",
                     "ICMPV6_PROTOCOL"},
          addr \in {"0.0.0.0/0", "::/0"} :
          \E r \in Range(sg_rules) :
             /\ r.Direction = d
             /\ r.Protocol = proto
             /\ r.RemoteIPAddress = addr
             /\ r.Action = "ACL_ACTION_DENY"

HasAllow(sg_rules) == \E r \in Range(sg_rules) : r.Action = "ACL_ACTION_ALLOW"

\* C2: Prepare on a device that is not tracked makes, as its first provider
\* call, a create_security_rules with the 16 default-deny rules; it makes
\* any other call, and passes any allow rule, only after that call returned.
C2_BaselineFirst ==
    (task.op = "prepare" /\ ~task.was_tracked)
    => /\ task.pc = "done" => task.log # <<>>
       /\ task.log # <<>> =>
            /\ task.log[1].fn = "create_security_rules"
            /\ task.log[1].port_id = task.port.id
            /\ IsBaseline(task.log[1].rules)
       /\ \A i \in DOMAIN task.log :
             (i > 1 \/ HasAllow(task.log[i].rules)) => (i > 1 /\ task.log[1].ok)

\* a new port got its baseline and then allow rules
C2_Witness ==
    /\ Finished({"prepare"}) /\ ~task.was_tracked /\ task.status = "ok"
    /\ Len(task.log) = 3
    /\ HasAllow(task.log[2].rules) /\ HasAllow(task.log[3].rules)

\* the tracked description of the call's device, NoPort when untracked
Tracked(device) ==
    IF device \in DOMAIN security_ports THEN security_ports[device] ELSE NoPort

\* C3: when create_security_rules or remove_security_rules raises in
\* Prepare or Update, the call ends there: the failed call is its last
\* provider call, the port's rule list is what it was just before that
\* call, and the tracked port description is the one from before the call.
C3_FailedCallChangesNothing ==
    (Finished(Lifecycle) /\ task.status = "ProviderError")
    => /\ task.log # <<>>
       /\ \A i \in DOMAIN task.log : task.log[i].ok <=> i < Len(task.log)
       /\ task.log[Len(task.log)].fn \in
              {"create_security_rules", "remove_security_rules"}
       /\ sec_group_rules[task.port.id] = task.list_before
       /\ Tracked(task.port.device) = task.old_port

\* a remove batch failed after the add batch of the same Update went through
C3_Witness ==
    /\ Finished({"update"}) /\ task.status = "ProviderError"
    /\ Len(task.log) = 2
    /\ task.log[2].fn = "remove_security_rules"
    /\ \E i \in DOMAIN task.list_before : IsAcl(task.list_before[i])

\* the call in flight repeats the call made just before it
IsRetry ==
    /\ prev.op = task.op
    /\ prev.port = task.port
    /\ ~prev.stale
    /\ CachesAsGenerated

\* C4: a Prepare or Update retried right after a provider call made it
\* fail, with the same port and caches, creates none of the rules the
\* failed attempt created, and when it returns every expected rule is in
\* force.
C4_RetryDoesNotRepeat ==
    (Finished(Lifecycle) /\ IsRetry /\ prev.status = "ProviderError")
    => /\ Created(task.log) \cap prev.created = {}
       /\ task.status = "ok" => ExpectedRules(task.port) \subseteq acls[task.port.id]

\* C5: the second of two consecutive Update calls with the same port and
\* caches makes no provider call (stated for a first call in which no
\* provider call raised).
C5_SecondUpdateSendsNothing ==
    (Finished({"update"}) /\ IsRetry /\ task.was_tracked
        /\ prev.status # "ProviderError")
    => task.log = <<>>

\* C6: a group without cached templates or membership makes no call fail.
C6_UnsyncedGroupIsNoError ==
    Finished(Lifecycle) => task.status # "KeyError"

\* C7: Update for a device that is not tracked makes no provider call and
\* changes neither the tracked ports, nor any rule list, nor the caches.
C7_UpdateUntrackedIsNoop ==
    [][(ncalls' # ncalls /\ task'.op = "update"
            /\ task'.port.device \notin DOMAIN security_ports)
        => /\ task'.pc = "done"
           /\ task'.log = <<>>
           /\ UNCHANGED <<security_ports, sec_group_rules, sg_rule_templates,
                          sg_members, acls>>]_vars

\* Update came right after Remove of a port that had been tracked
C7_Witness ==
    /\ Finished({"update"}) /\ ~task.was_tracked
    /\ prev.op = "remove" /\ prev.port.device = task.port.device
    /\ prev.was_tracked
    /\ acls[task.port.id] # {}

\* C8: Remove drops the port from the tracked ports and drops its rule
\* list, makes one provider call, clear_port_sg_acls_cache for the port id;
\* an Update that follows makes no provider call and a Prepare that follows
\* starts with the baseline.
C8_RemoveForgetsPort ==
    /\ Finished({"remove"})
       => /\ task.port.device \notin DOMAIN security_ports
          /\ task.port.id \notin DOMAIN sec_group_rules
          /\ Len(task.log) = 1
          /\ task.log[1].fn = "clear_port_sg_acls_cache"
          /\ task.log[1].port_id = task.port.id
    /\ (prev.op = "remove" /\ prev.port.device = task.port.device)
       => /\ Finished({"update"})
             => task.status = "not_added" /\ task.log = <<>>
          /\ Finished({"prepare"})
             => /\ task.log # <<>>
                /\ task.log[1].fn = "create_security_rules"
                /\ IsBaseline(task.log[1].rules)

\* Prepare came right after Remove of a port that had been tracked
C8_Witness ==
    /\ Finished({"prepare"}) /\ task.status = "ok"
    /\ prev.op = "remove" /\ prev.port.device = task.port.device
    /\ prev.was_tracked

InertOps ==
    {"filter_defer_apply_on", "filter_defer_apply_off", "security_group_updated"}

\* d2 is d with the entry of at most one key set
OneEntrySet(d, d2) ==
    \E g \in Groups :
       /\ g \in DOMAIN d2
       /\ DOMAIN d2 = DOMAIN d \cup {g}
       /\ \A h \in DOMAIN d : h # g => d2[h] = d[h]

\* C9: the inert calls change nothing; a cache update sets the entry of one
\* group in one cache and changes no port state; provider calls are made
\* by Prepare, Update and Remove alone.
C9_InertAndCacheUpdates ==
    [][/\ (task.pc = "idle" /\ task'.op \in InertOps)
          => /\ task'.log = <<>>
             /\ UNCHANGED <<security_ports, sec_group_rules, sg_rule_templates,
                            sg_members, acls>>
       /\ (nupdates' # nupdates)
          => /\ UNCHANGED <<security_ports, sec_group_rules, acls, task>>
             /\ \/ /\ OneEntrySet(sg_rule_templates, sg_rule_templates')
                   /\ UNCHANGED sg_members
                \/ /\ OneEntrySet(sg_members, sg_members')
                   /\ UNCHANGED sg_rule_templates
       /\ (task'.log # task.log /\ task'.log # <<>>)
          => task'.op \in {"prepare", "update", "remove"}
       /\ (acls' # acls) => task'.op \in Lifecycle]_vars

\* a cache update ran while a Prepare was suspended before its create call,
\* with another group's entry in the same cache
C9_Witness ==
    /\ task.pc = "add_sg"
    /\ task.snap_templates # sg_rule_templates
    /\ DOMAIN sg_rule_templates = Groups

\* C10: the group rules of one Prepare or Update are the selector's output,
\* ingress then egress, for one state of the caches, and the list the call
\* leaves for the port is that output, whatever cache updates ran while the
\* call was suspended.
C10_OneSnapshot ==
    (task.generated /\ task.op \in Lifecycle)
    => LET ing == SelectSgRulesForPort(task.snap_templates, task.snap_members,
                                       task.port, INGRESS_DIRECTION)
           egr == SelectSgRulesForPort(task.snap_templates, task.snap_members,
                                       task.port, EGRESS_DIRECTION)
       IN /\ ing.err = "" /\ egr.err = ""
          /\ task.newrules = ing.rules \o egr.rules
          /\ (task.pc = "done" /\ task.status = "ok")
             => sec_group_rules[task.port.id] = ing.rules \o egr.rules

\* a call returned after a cache update changed, while it was suspended,
\* what the selector would give it
C10_Witness ==
    /\ Finished(Lifecycle) /\ task.status = "ok" /\ task.generated
    /\ task.newrules # <<>>
    /\ GenerateRules(sg_rule_templates, sg_members, task.port).rules
          # task.newrules

KnownProtocols ==
    {"TCP_PROTOCOL", "UDP_PROTOCOL", "ICMP_PROTOCOL", "ICMPV6_PROTOCOL"}
IsWildcard(rule) == rule.protocol \in {Absent, "ANY"}

\* C11: no rule the generator hands on (a generated rule, the baseline, an
\* add batch, a remove batch) has the protocol "ANY"; a rule dict without
\* protocol, or with the protocol "ANY", gives one rule per known protocol.
C11_NoLiteralWildcard ==
    /\ call.fn \in {"create_security_group_rule", "create_default_sg_rules",
                    "_create_port_rules", "_remove_port_rules"}
       => \A i \in DOMAIN call.result : call.result[i].Protocol # "ANY"
    /\ (call.fn = "create_security_group_rule" /\ IsWildcard(call.args.rule))
       => /\ Len(call.result) = 4
          /\ {call.result[i].Protocol : i \in DOMAIN call.result} = KnownProtocols
    /\ call.fn = "_remove_port_rules"
       => \A j \in DOMAIN call.args.rules :
             IsWildcard(call.args.rules[j])
             => \A proto \in KnownProtocols :
                   \E i \in DOMAIN call.result : call.result[i].Protocol = proto
    /\ (call.fn = "_create_port_rules" /\ call.args.old_sg_rules = <<>>)
       => \A j \in DOMAIN call.args.rules :
             IsWildcard(call.args.rules[j])
             => \A proto \in KnownProtocols :
                   \E i \in DOMAIN call.result : call.result[i].Protocol = proto

\* the add batch of a rule without protocol for a port with an empty list
C11_Witness ==
    /\ call.fn = "_create_port_rules"
    /\ call.args.old_sg_rules = <<>>
    /\ call.args.rules = <<TplNoProtoIn>>
    /\ Len(call.result) = 4

\* C12: after a Prepare that returns without error the port's rule list
\* holds rule objects only and holds every rule the call passed to a
\* create_security_rules call that returned.
C12_ListIsApplied ==
    (Finished({"prepare"}) /\ task.status = "ok")
    => LET lst == sec_group_rules[task.port.id]
       IN /\ \A i \in DOMAIN lst : IsAcl(lst[i])
          /\ \A r \in Created(task.log) : PyIn(r, lst)

\* C13: an Update on a tracked device in which every provider call returned
\* and no group lacked cached membership (the one source of KeyError)
\* returns without error and leaves the new port description and the
\* newly selected rules cached.
C13_UpdateCompletes ==
    (/\ Finished({"update"}) /\ task.was_tracked
     /\ \A i \in DOMAIN task.log : task.log[i].ok
     /\ task.status # "KeyError")
    => /\ task.status = "ok"
       /\ security_ports[task.port.device] = task.port
       /\ sec_group_rules[task.port.id] = task.newrules

\* C14: Prepare for a tracked device does what Update would do from the
\* same state: its add batch is Update's add batch, with no baseline rule
\* in it, and as it removes nothing, Update's remove batch is empty.
C14_PrepareTrackedIsUpdate ==
    [][(ncalls' # ncalls /\ task'.op = "prepare" /\ task'.was_tracked)
        => LET port == task'.port
               old_port == security_ports[port.device]
               cached == sec_group_rules[port.id]
               gen == GenerateRules(sg_rule_templates, sg_members, port)
               upd_add == CreatePortRulesAdd(
                              cached,
                              UpdateNewRules(old_port, port, gen.rules, cached))
               upd_remove == UpdateRemoveRules(old_port, port, gen.rules, cached)
           IN gen.err = ""
              => /\ \A i \in DOMAIN task'.sg_rules :
                       task'.sg_rules[i].Action # "ACL_ACTION_DENY"
                 /\ task'.sg_rules = upd_add
                 /\ task'.pc = IF upd_add = <<>> THEN "done" ELSE "add_sg"
                 /\ upd_remove = <<>>]_vars

\* C15: in one Update no rule is both in the batch passed to
\* create_security_rules and in the batch passed to remove_security_rules,
\* and every rule the call created is in force when it returns.
C15_BatchesDisjoint ==
    Finished({"update"})
    => /\ \A i, j \in DOMAIN task.log :
             (task.log[i].fn = "create_security_rules"
                 /\ task.log[j].fn = "remove_security_rules")
             => \A r \in Range(task.log[i].rules) : ~PyIn(r, task.log[j].rules)
       /\ \A r \in Created(task.log) : r \in acls[task.port.id]

IcmpProtocols == {"ICMP_PROTOCOL", "ICMPV6_PROTOCOL"}

\* the baseline has 16 entries, one per direction, known protocol and
\* ethertype (told apart by its any-address), all of them deny rules
DefaultDenyShape(sg_rules) ==
    /\ Len(sg_rules) = 16
    /\ \A d \in {"ACL_DIR_IN", "ACL_DIR_OUT"}, proto \in KnownProtocols,
          addr \in {"0.0.0.0/0", "::/0"} :
          Cardinality({i \in DOMAIN sg_rules :
                          /\ sg_rules[i].Direction = d
                          /\ sg_rules[i].Protocol = proto
                          /\ sg_rules[i].RemoteIPAddress = addr}) = 1
    /\ \A i \in DOMAIN sg_rules : sg_rules[i].Action = "ACL_ACTION_DENY"

\* C16 as claimed: create_default_sg_rules gives 16 deny rules, one per
\* direction, known protocol and ethertype, each with its ethertype's
\* any-address and with the local port "ANY".
C16_DefaultDenyAllWildcardPort ==
    call.fn = "create_default_sg_rules"
    => /\ DefaultDenyShape(call.result)
       /\ \A i \in DOMAIN call.result : call.result[i].LocalPort = "ANY"

\* C16 as amended: create_default_sg_rules gives 16 deny rules, one per
\* direction, known protocol and ethertype, each with its ethertype's
\* any-address; the tcp and udp rules have the local port "ANY", the icmp
\* and icmpv6 rules the empty local port.
C16_DefaultDeny ==
    call.fn = "create_default_sg_rules"
    => /\ DefaultDenyShape(call.result)
       /\ \A i \in DOMAIN call.result :
             call.result[i].LocalPort =
                 IF call.result[i].Protocol \in IcmpProtocols THEN "" ELSE "ANY"

\* the baseline was generated, with both kinds of local port in it
C16_Witness ==
    /\ call.fn = "create_default_sg_rules"
    /\ \E i, j \in DOMAIN call.result :
          call.result[i].LocalPort = "" /\ call.result[j].LocalPort = "ANY"

\* the protocol codes by name, and the local port texts by port range
ProtocolCode(name) ==
    CASE name = "tcp" -> "TCP_PROTOCOL"
      [] name = "udp" -> "UDP_PROTOCOL"
      [] name = "icmp" -> "ICMP_PROTOCOL"
      [] name = "ipv6-icmp" -> "ICMPV6_PROTOCOL"
LocalPortText(pmin, pmax) ==
    CASE pmin = "80" /\ pmax = "80" -> "80-80"
      [] pmin = "80" /\ pmax = "443" -> "80-443"
      [] OTHER -> "ANY"

\* C17: a rule dict without protocol gives 4 rules, one per known protocol,
\* and one naming a known protocol gives 1; a generated rule is stateful
\* unless it is an icmp/icmpv6 rule or a deny rule; an icmp/icmpv6 rule has
\* the empty local port whatever its port range, any other rule has
\* "min-max" when both bounds are given and "ANY" otherwise.
C17_GenerateShape ==
    /\ call.fn = "create_security_group_rule"
       => LET rule == call.args.rule
              res == call.result
          IN /\ rule.protocol = Absent
                => /\ Len(res) = 4
                   /\ \A proto \in KnownProtocols :
                         Cardinality({i \in DOMAIN res : res[i].Protocol = proto}) = 1
             /\ rule.protocol \in {"tcp", "udp", "icmp", "ipv6-icmp"}
                => /\ Len(res) = 1
                   /\ res[1].Protocol = ProtocolCode(rule.protocol)
             /\ \A i \in DOMAIN res :
                   /\ res[i].Stateful <=> (res[i].Protocol \notin IcmpProtocols
                                            /\ res[i].Action # "ACL_ACTION_DENY")
                   /\ res[i].LocalPort =
                         IF res[i].Protocol \in IcmpProtocols THEN ""
                         ELSE LocalPortText(rule.port_range_min,
                                            rule.port_range_max)
    /\ call.fn = "create_default_sg_rules"
       => \A i \in DOMAIN call.result : ~call.result[i].Stateful

\* a rule without protocol and with a port range was expanded
C17_Witness ==
    /\ call.fn = "create_security_group_rule"
    /\ call.args.rule.protocol = Absent
    /\ call.args.rule.port_range_min = "80"
    /\ call.args.rule.port_range_max = "443"
    /\ Len(call.result) = 4
    /\ \E i, j \in DOMAIN call.result :
          call.result[i].LocalPort = "" /\ call.result[j].LocalPort = "80-443"

\* a member address as a single-host network
HostNet(ip) ==
    CASE ip = "10.0.0.1" -> "10.0.0.1/32"
      [] ip = "10.0.0.2" -> "10.0.0.2/32"
      [] ip = "::1" -> "::1/128"
RemotePrefixKey(direction) ==
    IF direction = "ingress" THEN "source_ip_prefix" ELSE "dest_ip_prefix"

\* the template at place j of the g-th attached group
TemplateAt(a, g, j) == a.templates[a.port.security_groups[g]][j]
AttachedTemplates(a) ==
    {gj \in UNION {{<<g, j>> : j \in DOMAIN a.templates[a.port.security_groups[g]]} :
                     g \in {h \in DOMAIN a.port.security_groups :
                              a.port.security_groups[h] \in DOMAIN a.templates}} :
        TemplateAt(a, gj[1], gj[2]).direction = a.direction}
HasMembers(a, tpl) ==
    /\ tpl.remote_group_id \in DOMAIN a.members
    /\ tpl.ethertype \in DOMAIN a.members[tpl.remote_group_id]
\* what is to be emitted: <<g, j, 0>> for a template without remote group,
\* <<g, j, k>> for the k-th member address of its remote group, the
\* port's own addresses left out
ToEmit(a) ==
    UNION {LET tpl == TemplateAt(a, gj[1], gj[2])
           IN IF tpl.remote_group_id = Absent THEN {<<gj[1], gj[2], 0>>}
              ELSE IF ~HasMembers(a, tpl) THEN {}
              ELSE {<<gj[1], gj[2], k>> :
                      k \in {m \in DOMAIN a.members[tpl.remote_group_id][tpl.ethertype] :
                               a.members[tpl.remote_group_id][tpl.ethertype][m]
                                  \notin Range(a.port.fixed_ips)}} :
           gj \in AttachedTemplates(a)}
EmittedFor(a, e) ==
    LET tpl == TemplateAt(a, e[1], e[2])
        sg_id == a.port.security_groups[e[1]]
    IN IF e[3] = 0 THEN [tpl EXCEPT !.security_group_id = sg_id]
       ELSE [tpl EXCEPT
               ![RemotePrefixKey(a.direction)] =
                   HostNet(a.members[tpl.remote_group_id][tpl.ethertype][e[3]]),
               !.security_group_id = sg_id]

\* C18: the selector's output holds, for every template of an attached
\* group that matches the direction, the template once when it names no
\* remote group, and else one rule per member address of the remote group
\* under the template's ethertype that is not a fixed IP of the port, with
\* the remote prefix of the direction set to the address as a single-host
\* network; every rule carries the id of the group that owns the template;
\* nothing else is in the output, no rule for an own address and no rule of
\* the other direction.  (Stated of the calls that return; a call raises
\* exactly when a matching template names a group without cached members.)
C18_SelectorOutput ==
    call.fn = "_select_sg_rules_for_port"
    => LET a == call.args
           out == call.result.rules
           own == {HostNet(ip) : ip \in Range(a.port.fixed_ips)}
       IN /\ call.result.err = ""
             <=> \A gj \in AttachedTemplates(a) :
                    TemplateAt(a, gj[1], gj[2]).remote_group_id # Absent
                    => HasMembers(a, TemplateAt(a, gj[1], gj[2]))
          /\ call.result.err = ""
             => /\ \A r \in Range(out) \cup {EmittedFor(a, e) : e \in ToEmit(a)} :
                      Cardinality({i \in DOMAIN out : out[i] = r})
                        = Cardinality({e \in ToEmit(a) : EmittedFor(a, e) = r})
                /\ \A i \in DOMAIN out :
                      /\ out[i].direction = a.direction
                      /\ out[i].remote_group_id # Absent
                         => out[i][RemotePrefixKey(a.direction)] \notin own

\* a template with a remote group was selected for a port that is itself
\* a member: one rule, for the other member
C18_Witness ==
    /\ call.fn = "_select_sg_rules_for_port"
    /\ call.args.port.fixed_ips = <<"10.0.0.1">>
    /\ call.args.direction = "egress"
    /\ call.args.templates = [g \in {"A"} |-> <<TplRemoteEg>>]
    /\ "B" \in DOMAIN call.args.members
    /\ call.args.members["B"] = [IPv4 |-> <<"10.0.0.1", "10.0.0.2">>, IPv6 |-> <<>>]
    /\ call.result.err = ""
    /\ Len(call.result.rules) = 1
    /\ call.result.rules[1].dest_ip_prefix = "10.0.0.2/32"
    /\ call.result.rules[1].security_group_id = "A"

\* two rule objects that agree on (direction, action, local_port, protocol,
\* remote_address)
SameRule(x, y) ==
    /\ IsAcl(x) /\ IsAcl(y)
    /\ x.Direction = y.Direction /\ x.Action = y.Action
    /\ x.LocalPort = y.LocalPort /\ x.Protocol = y.Protocol
    /\ x.RemoteIPAddress = y.RemoteIPAddress

\* C19: the batch _create_port_rules passes to _add_sg_port_rules is the
\* generated rules minus the entries of the port's list, by rule equality,
\* without duplicates: each entry is a generated rule equal to no entry of
\* the list, each generated rule equal to no entry of the list is in it,
\* and no two entries are equal.
C19_AddBatchIsDifference ==
    call.fn = "_create_port_rules"
    => LET old == call.args.old_sg_rules
           batch == call.result
           new == UNION {Range(CreateSecurityGroupRule(call.args.rules[j])) :
                            j \in DOMAIN call.args.rules}
           InOld(r) == \E k \in DOMAIN old : SameRule(old[k], r)
       IN /\ \A i \in DOMAIN batch : batch[i] \in new /\ ~InOld(batch[i])
          /\ \A r \in new : ~InOld(r) => \E i \in DOMAIN batch : SameRule(batch[i], r)
          /\ \A i, j \in DOMAIN batch : SameRule(batch[i], batch[j]) => i = j

\* two rule dicts that normalise to one rule gave a batch of one entry,
\* the port's list holding a rule object that is not theirs
C19_Witness ==
    /\ call.fn = "_create_port_rules"
    /\ call.args.rules = <<TplTcpIn, TplTcpInAny>>
    /\ call.args.old_sg_rules = CreateSecurityGroupRules(<<TplNoProtoIn>>)
    /\ Len(call.result) = 1

\* C20: two rules the generator made are equal exactly when they agree on
\* (direction, action, local_port, protocol, remote_address); equal rules
\* have equal hashes; the idle timeout is the same in all of them and the
\* weight is no part of the comparison or of the hash, so neither decides
\* an equality or a hash.
C20_EqualityOverFiveFields ==
    call.fn = "__eq__"
    => LET self == call.args.self
           obj == call.args.obj
       IN /\ call.result.eq <=> SameRule(self, obj)
          /\ call.result.eq => call.result.hash_self = call.result.hash_obj
          /\ self.IdleSessionTimeout = obj.IdleSessionTimeout
          /\ call.result.eq = SgRuleEq(self, [obj EXCEPT !.Weight = @ + 1])
          /\ call.result.hash_obj =
                RuleHash([obj EXCEPT !.Weight = @ + 1,
                                     !.IdleSessionTimeout = @ + 1])

\* a stateful allow rule was compared with the rule that differs from it
\* in the remote address alone
C20_Witness ==
    /\ call.fn = "__eq__"
    /\ call.args.self.Stateful
    /\ call.args.self.RemoteIPAddress = "10.0.0.2/32"
    /\ call.args.obj = [call.args.self EXCEPT !.RemoteIPAddress = "::1"]
    /\ ~call.result.eq

====
